---- MODULE Spec2Model ----
(***************************************************************************)
(* Model of the prescription-line parser of src/ner/ner.py: line           *)
(* normalization, the administrative-line classifier, the regex field      *)
(* extraction, the fuzzy canonicalizer and the extraction driver.          *)
(*                                                                         *)
(* A Python str is modelled as a sequence of one-character strings; the    *)
(* three typographic characters the normalizer rewrites are written by     *)
(* name ("BULLET", "EMDASH", "ENDASH") and count as one character each.    *)
(***************************************************************************)
EXTENDS Bags, FiniteSets, Integers, Naturals, Sequences, TLC

\* The calls of extract_entities in flight: each variable maps a call to
\* its argument, its locals and its position.
VARIABLES
    text,       \* the argument of the call
    lines,      \* text.splitlines(), the list the loop iterates over
    idx,        \* position of the loop in lines (1-based)
    meds,       \* the local list meds
    seen,       \* the local set seen
    pc,         \* "start", "loop", "done", or "raised" (an exception left the call)
    result      \* the mapping returned, once pc is "done"

\* A check of _normalize_line applied to an input and then to its own output.
VARIABLES norm_in, norm_out, norm_pc

\* A check of _fuzzy_canon applied to one candidate.
VARIABLES canon_in, canon_out, canon_pc

extractVars == <<text, lines, idx, meds, seen, pc, result>>

normVars == <<norm_in, norm_out, norm_pc>>

canonVars == <<canon_in, canon_out, canon_pc>>

vars == <<extractVars, normVars, canonVars>>

(***************************************************************************)
(* Characters and the str methods the module uses                          *)
(***************************************************************************)
LowerAlpha ==
    <<"a","b","c","d","e","f","g","h","i","j","k","l","m",
      "n","o","p","q","r","s","t","u","v","w","x","y","z">>

UpperAlpha ==
    <<"A","B","C","D","E","F","G","H","I","J","K","L","M",
      "N","O","P","Q","R","S","T","U","V","W","X","Y","Z">>

LowerSet == {LowerAlpha[i] : i \in DOMAIN LowerAlpha}

UpperSet == {UpperAlpha[i] : i \in DOMAIN UpperAlpha}

Digits == {"0","1","2","3","4","5","6","7","8","9"}

\* What \s matches and str.strip() removes, among the characters modelled.
Whitespace == {" ", "\t"}

IsAlpha(c) == c \in LowerSet \/ c \in UpperSet

IsDigit(c) == c \in Digits

\* \w of the regexes (str patterns): letters, digits and the underscore.
IsWord(c) == IsAlpha(c) \/ IsDigit(c) \/ c = "_"

IsSpace(c) == c \in Whitespace

LowerChar(c) ==
    IF c \in UpperSet
    THEN LowerAlpha[CHOOSE i \in DOMAIN UpperAlpha : UpperAlpha[i] = c]
    ELSE c

UpperChar(c) ==
    IF c \in LowerSet
    THEN UpperAlpha[CHOOSE i \in DOMAIN LowerAlpha : LowerAlpha[i] = c]
    ELSE c

\* str.lower()
lower(s) == [i \in 1..Len(s) |-> LowerChar(s[i])]

\* str.upper()
upper(s) == [i \in 1..Len(s) |-> UpperChar(s[i])]

\* str.title(): a letter that follows a letter is lower-cased, any other
\* letter is upper-cased.
title(s) ==
    [i \in 1..Len(s) |->
        IF i > 1 /\ IsAlpha(s[i-1]) THEN LowerChar(s[i]) ELSE UpperChar(s[i])]

\* str.strip(chars) with the set of characters to remove.
strip_chars(s, cs) ==
    LET keep == {i \in 1..Len(s) : s[i] \notin cs}
    IN  IF keep = {} THEN <<>>
        ELSE SubSeq(s, CHOOSE i \in keep : \A j \in keep : i <= j,
                       CHOOSE i \in keep : \A j \in keep : i >= j)

\* str.strip()
strip(s) == strip_chars(s, Whitespace)

\* s[i:] of Python with 1-based i.
From(s, i) == SubSeq(s, i, Len(s))

\* Whether sub occurs in s starting at position i.
OccursAt(s, sub, i) ==
    /\ i >= 1
    /\ i + Len(sub) - 1 <= Len(s)
    /\ \A k \in 1..Len(sub) : s[i + k - 1] = sub[k]

\* The `in` operator on strings.
Contains(s, sub) == \E i \in 1..(Len(s) - Len(sub) + 1) : OccursAt(s, sub, i)

\* str.replace(old, new): non-overlapping occurrences, left to right.
RECURSIVE replace(_, _, _)
replace(s, old, new) ==
    IF Len(s) < Len(old) THEN s
    ELSE IF OccursAt(s, old, 1)
         THEN new \o replace(From(s, Len(old) + 1), old, new)
         ELSE <<s[1]>> \o replace(Tail(s), old, new)

\* A \b of the regexes between positions i-1 and i of s (i in 1..Len(s)+1).
Boundary(s, i) ==
    LET before == i > 1 /\ IsWord(s[i-1])
        after  == i <= Len(s) /\ IsWord(s[i])
    IN  before # after

\* First position at or after i that holds no whitespace (\s* is greedy and
\* nothing that follows it in these patterns starts with whitespace).
RECURSIVE SkipSpace(_, _)
SkipSpace(s, i) ==
    IF i <= Len(s) /\ IsSpace(s[i]) THEN SkipSpace(s, i + 1) ELSE i

\* Case-insensitive comparison of the literal lit (given in lower case)
\* with the text of s at position i.
MatchesAt(s, lit, i) ==
    /\ i + Len(lit) - 1 <= Len(s)
    /\ \A k \in 1..Len(lit) : LowerChar(s[i + k - 1]) = lit[k]

(***************************************************************************)
(* Normalization                                                           *)
(***************************************************************************)
\* End (exclusive) of a match of \b1\s*ab\b (re.I) starting at i, or 0.
OneAbEnd(s, i) ==
    LET j == SkipSpace(s, i + 1)
    IN  IF /\ s[i] = "1"
           /\ Boundary(s, i)
           /\ MatchesAt(s, <<"a","b">>, j)
           /\ Boundary(s, j + 2)
        THEN j + 2
        ELSE 0

\* re.sub(r"\b1\s*ab\b", "1 tab", s, flags=re.I), scanning from position i.
RECURSIVE SubOneAb(_, _)
SubOneAb(s, i) ==
    IF i > Len(s) THEN <<>>
    ELSE IF OneAbEnd(s, i) # 0
         THEN <<"1"," ","t","a","b">> \o SubOneAb(s, OneAbEnd(s, i))
         ELSE <<s[i]>> \o SubOneAb(s, i + 1)

\* re.sub(r"[..]", d, s): the pass without its two look-arounds.
DigitFixAnywhere(s, letters, d) ==
    [i \in 1..Len(s) |-> IF s[i] \in letters THEN d ELSE s[i]]

\* re.sub(r"(?<=\d)[..](?=\d)", d, s): the look-arounds read the subject
\* string, so every position is decided on the string before the pass.
DigitFix(s, letters, d) ==
    [i \in 1..Len(s) |->
        IF /\ s[i] \in letters
           /\ i > 1 /\ IsDigit(s[i-1])
           /\ i < Len(s) /\ IsDigit(s[i+1])
        THEN d ELSE s[i]]

\* re.sub(r"\s{2,}", " ", s): a run of two or more whitespace characters
\* becomes one space; a single whitespace character is kept as it is.
RECURSIVE CollapseSpace(_, _)
CollapseSpace(s, i) ==
    IF i > Len(s) THEN <<>>
    ELSE LET j == SkipSpace(s, i)
         IN  IF j - i >= 2 THEN <<" ">> \o CollapseSpace(s, j)
             ELSE <<s[i]>> \o CollapseSpace(s, i + 1)

\* Lines 79-82: bullets and dashes to "-", the pipe to "1".
FixPunctuation(s) ==
    replace(replace(replace(replace(s, <<"BULLET">>, <<"-">>),
                            <<"EMDASH">>, <<"-">>),
                    <<"ENDASH">>, <<"-">>),
            <<"|">>, <<"1">>)

\* FixUnits without the two repairs of "m9": what the normalizer would do
\* if it left that misread alone.
FixUnitsNoM9(s) ==
    replace(replace(replace(replace(s,
        <<" ","a","g">>, <<" ","m","g">>),
        <<" ","m","y">>, <<" ","m","g">>),
        <<" ","r","n","g">>, <<" ","m","g">>),
        <<" ","m","g",".">>, <<" ","m","g">>)

\* Lines 84-85: the unit misreads, in the order of the chained calls.
FixUnits(s) ==
    replace(replace(replace(replace(replace(replace(s,
        <<" ","a","g">>, <<" ","m","g">>),
        <<" ","m","9">>, <<" ","m","g">>),
        <<"m","9">>, <<"m","g">>),
        <<" ","m","y">>, <<" ","m","g">>),
        <<" ","r","n","g">>, <<" ","m","g">>),
        <<" ","m","g",".">>, <<" ","m","g">>)

\* Lines 88-90: the three digit/letter passes, in order.
FixDigits(s) ==
    DigitFix(DigitFix(DigitFix(s, {"O","o"}, "0"), {"I","l"}, "1"), {"Z","z"}, "2")

_normalize_line(line) ==
    strip(CollapseSpace(FixDigits(SubOneAb(FixUnits(FixPunctuation(line)), 1)), 1))

(***************************************************************************)
(* The static tables                                                       *)
(***************************************************************************)
CANON_MEDS ==
    <<<<"B","e","t","a","l","o","c">>,
      <<"D","o","r","z","o","l","a","m","i","d","e">>,
      <<"C","i","m","e","t","i","d","i","n","e">>,
      <<"O","x","p","r","e","n","o","l","o","l">>,
      <<"P","a","r","a","c","e","t","a","m","o","l">>,
      <<"A","c","e","t","a","m","i","n","o","p","h","e","n">>,
      <<"I","b","u","p","r","o","f","e","n">>,
      <<"A","m","o","x","i","c","i","l","l","i","n">>,
      <<"A","s","p","i","r","i","n">>,
      <<"C","e","t","i","r","i","z","i","n","e">>,
      <<"M","e","t","f","o","r","m","i","n">>,
      <<"C","i","p","r","o","f","l","o","x","a","c","i","n">>,
      <<"A","z","i","t","h","r","o","m","y","c","i","n">>,
      <<"O","m","e","p","r","a","z","o","l","e">>,
      <<"A","t","o","r","v","a","s","t","a","t","i","n">>,
      <<"L","i","s","i","n","o","p","r","i","l">>,
      <<"L","e","v","o","t","h","y","r","o","x","i","n","e">>,
      <<"M","e","t","o","p","r","o","l","o","l">>,
      <<"A","m","l","o","d","i","p","i","n","e">>,
      <<"S","i","m","v","a","s","t","a","t","i","n">>,
      <<"L","o","s","a","r","t","a","n">>,
      <<"G","a","b","a","p","e","n","t","i","n">>,
      <<"H","y","d","r","o","c","h","l","o","r","o","t","h","i","a","z","i","d","e">>,
      <<"P","r","e","d","n","i","s","o","n","e">>,
      <<"M","o","n","t","e","l","u","k","a","s","t">>,
      <<"S","e","r","t","r","a","l","i","n","e">>,
      <<"F","u","r","o","s","e","m","i","d","e">>,
      <<"P","a","n","t","o","p","r","a","z","o","l","e">>>>

CANON_MEDS_LOWER == [i \in DOMAIN CANON_MEDS |-> lower(CANON_MEDS[i])]

\* The dict as its set of (key, value) pairs.
ALIASES ==
    {<<<<"b","e","t","s","l","o","e">>,
       <<"B","e","t","a","l","o","c">>>>,
     <<<<"b","e","t","e","l","o","c">>,
       <<"B","e","t","a","l","o","c">>>>,
     <<<<"b","e","t","a","l","o","c">>,
       <<"B","e","t","a","l","o","c">>>>,
     <<<<"v","o","r","z","o","l","a","r","i","d","u","m">>,
       <<"D","o","r","z","o","l","a","m","i","d","e">>>>,
     <<<<"d","o","r","z","o","l","a","m","i","d","u","m">>,
       <<"D","o","r","z","o","l","a","m","i","d","e">>>>,
     <<<<"o","x","p","r","e","l","e","l">>,
       <<"O","x","p","r","e","n","o","l","o","l">>>>,
     <<<<"o","x","p","r","e","l","o","l">>,
       <<"O","x","p","r","e","n","o","l","o","l">>>>}

FREQ_MAP ==
    {<<<<"O","D">>,
       <<"O","n","c","e"," ","d","a","i","l","y">>>>,
     <<<<"Q","D">>,
       <<"O","n","c","e"," ","d","a","i","l","y">>>>,
     <<<<"B","D">>,
       <<"T","w","i","c","e"," ","d","a","i","l","y">>>>,
     <<<<"B","I","D">>,
       <<"T","w","i","c","e"," ","d","a","i","l","y">>>>,
     <<<<"T","I","D">>,
       <<"T","h","r","e","e"," ","t","i","m","e","s"," ","d","a","i","l","y">>>>,
     <<<<"Q","I","D">>,
       <<"F","o","u","r"," ","t","i","m","e","s"," ","d","a","i","l","y">>>>,
     <<<<"H","S">>,
       <<"A","t"," ","b","e","d","t","i","m","e">>>>,
     <<<<"Q","H","S">>,
       <<"A","t"," ","b","e","d","t","i","m","e">>>>,
     <<<<"P","R","N">>,
       <<"A","s"," ","n","e","e","d","e","d">>>>,
     <<<<"S","O","S">>,
       <<"I","f"," ","n","e","c","e","s","s","a","r","y">>>>}

\* The alternatives of DOSE_UNITS, in the order the regex tries them.
DOSE_UNITS ==
    <<<<"m","g">>, <<"m","c","g">>, <<"g">>, <<"m","l">>, <<"i","u">>, <<"u","n","i","t","s">>, <<"%">>>>

\* The literal alternatives of FREQ_RE, in order (matched with re.I).
FREQ_CODES ==
    <<<<"o","d">>, <<"q","d">>, <<"b","d">>, <<"b","i","d">>, <<"t","i","d">>, <<"q","i","d">>, <<"h","s">>, <<"q","h","s">>, <<"p","r","n">>, <<"s","o","s">>>>

\* The words FORM_RE accepts, its optional groups expanded greedy first.
FORM_WORDS ==
    <<<<"t","a","b">>,
      <<"t","a","b","l","e","t">>,
      <<"c","a","p">>,
      <<"c","a","p","s","u","l","e">>,
      <<"s","y","r","u","p">>,
      <<"s","y","r">>,
      <<"s","u","s","p","e","n","s","i","o","n">>,
      <<"s","u","s","p">>,
      <<"i","n","j","e","c","t","i","o","n">>,
      <<"i","n","j">>,
      <<"d","r","o","p","s">>,
      <<"d","r","o","p">>>>

ADMIN_KEYWORDS ==
    <<<<"d","e","a">>,
      <<"l","i","c">>,
      <<"m","e","d","i","c","a","l"," ","c","e","n","t","r","e">>,
      <<"m","e","d","i","c","a","l"," ","c","e","n","t","e","r">>,
      <<"h","o","s","p","i","t","a","l">>,
      <<"n","a","m","e">>,
      <<"a","d","d","r","e","s","s">>,
      <<"a","g","e">>,
      <<"d","a","t","e">>,
      <<"s","i","g","n","a","t","u","r","e">>,
      <<"s","i","g","n">>,
      <<"d","o","c","t","o","r">>,
      <<"d","r">>,
      <<"r","e","f","i","l","l">>,
      <<"l","a","b","e","l">>,
      <<"s","t","o","c","k">>,
      <<"p","r","e","s","c">>,
      <<"u","s","a">>,
      <<"n","e","w"," ","y","o","r","k">>,
      <<"s","t","r","e","e","t">>,
      <<"a","v","e","n","u","e">>,
      <<"r","o","a","d">>,
      <<"n","y">>,
      <<"z","i","p">>,
      <<"w","t","x">>,
      <<"a","d","o","b","e">>>>

\* The alternatives of the pattern that strips form/unit tokens from the
\* name part (ner.py line 136).
NAME_STRIP_WORDS ==
    <<<<"t","a","b">>, <<"t","a","b","l","e","t">>, <<"c","a","p">>, <<"c","a","p","s","u","l","e">>, <<"m","g">>, <<"m","c","g">>, <<"g">>, <<"m","l">>, <<"i","u">>, <<"u","n","i","t","s">>, <<"%">>>>

(***************************************************************************)
(* The regular expressions                                                 *)
(***************************************************************************)
\* What a failed search, a dict miss or a rejected line gives.
None == [none |-> TRUE]

\* Smallest member of a non-empty set of integers.
Min(S) == CHOOSE x \in S : \A y \in S : x <= y

\* Index of the first alternative of alts that matches s at i
\* (case-insensitively) and ends at a \b; 0 when none does.
AltAt(s, alts, i) ==
    LET ok == {k \in DOMAIN alts :
                  MatchesAt(s, alts[k], i) /\ Boundary(s, i + Len(alts[k]))}
    IN  IF ok = {} THEN 0 ELSE Min(ok)

\* Number of digits at the start of s[i:].
RECURSIVE DigitRun(_, _)
DigitRun(s, i) ==
    IF i <= Len(s) /\ IsDigit(s[i]) THEN 1 + DigitRun(s, i + 1) ELSE 0

\* End (exclusive) of a match of Q\d+h\b (re.I) at i, given the number n of
\* digits that follow position i; 0 when there is none.
IntervalEnd(s, i, n) ==
    IF /\ LowerChar(s[i]) = "q"
       /\ n >= 1
       /\ i + 1 + n <= Len(s) /\ LowerChar(s[i + 1 + n]) = "h"
       /\ Boundary(s, i + 2 + n)
    THEN i + 2 + n
    ELSE 0

\* End of the alternative of FREQ_RE found at i: the literal code of index
\* k when k is not 0, else the interval form.
FreqAltEnd(s, i, k) ==
    IF k # 0 THEN i + Len(FREQ_CODES[k]) ELSE IntervalEnd(s, i, DigitRun(s, i + 1))

\* End (exclusive) of a match of FREQ_RE starting at i, or 0:
\* \b(OD|QD|BD|BID|TID|QID|HS|QHS|PRN|SOS|Q\d+h)\b with re.I.
FreqEndAt(s, i) ==
    IF ~Boundary(s, i) THEN 0 ELSE FreqAltEnd(s, i, AltAt(s, FREQ_CODES, i))

\* The match object of FREQ_RE for its leftmost match, given the set of
\* positions where it matches.
FreqMatch(s, hits) ==
    IF hits = {} THEN None
    ELSE [group1 |-> SubSeq(s, Min(hits), FreqEndAt(s, Min(hits)) - 1)]

\* FREQ_RE.search(s): the match object (its group 1) or None.
FREQ_RE_search(s) == FreqMatch(s, {i \in 1..Len(s) : FreqEndAt(s, i) # 0})

\* The ways \d{1,4}(?:\.\d{1,2})? can match at i, as <<d, k>>: d integer
\* digits and k decimals (0: the optional group is skipped).
NumberShapes(s, i) ==
    {p \in (1..4) \X (0..2) :
        /\ DigitRun(s, i) >= p[1]
        /\ p[2] > 0 => /\ i + p[1] <= Len(s)
                       /\ s[i + p[1]] = "."
                       /\ DigitRun(s, i + p[1] + 1) >= p[2]}

\* End (exclusive) of the number of shape p at i.
NumberEnd(i, p) == IF p[2] > 0 THEN i + p[1] + 1 + p[2] ELSE i + p[1]

\* The shapes that let the rest of DOSE_RE, \s*(unit)\b, match.
DoseShapes(s, i) ==
    {p \in NumberShapes(s, i) :
        AltAt(s, DOSE_UNITS, SkipSpace(s, NumberEnd(i, p))) # 0}

\* The shape the backtracking search finds first: quantifiers are greedy, so
\* more integer digits first, then more decimals.
FirstShape(S) ==
    CHOOSE p \in S : \A q \in S : p[1] > q[1] \/ (p[1] = q[1] /\ p[2] >= q[2])

\* The two groups of DOSE_RE for the number s[i:e] and the unit at u.
DoseGroups(s, i, e, u) ==
    [group1 |-> SubSeq(s, i, e - 1),
     group2 |-> SubSeq(s, u, u + Len(DOSE_UNITS[AltAt(s, DOSE_UNITS, u)]) - 1)]

\* The match of DOSE_RE that starts at i with the number ending at e.
DoseMatchAt(s, i, e) == DoseGroups(s, i, e, SkipSpace(s, e))

\* The match object of DOSE_RE for its leftmost match, given the set of
\* positions where it matches.
DoseMatch(s, hits) ==
    IF hits = {} THEN None
    ELSE DoseMatchAt(s, Min(hits),
                     NumberEnd(Min(hits), FirstShape(DoseShapes(s, Min(hits)))))

\* DOSE_RE.search(s): the match object (groups 1 and 2) or None, for
\* \b(\d{1,4}(?:\.\d{1,2})?)\s*(mg|mcg|g|ml|iu|units|%)\b with re.I.
DOSE_RE_search(s) ==
    DoseMatch(s, {i \in 1..Len(s) : Boundary(s, i) /\ DoseShapes(s, i) # {}})

\* The form words looked for as substrings, without the two \b of FORM_RE.
FormAnywhere(s) ==
    \E k \in DOMAIN FORM_WORDS : Contains(lower(s), FORM_WORDS[k])

\* FORM_RE.search(s), of which only the truth value is used.
FORM_RE_search(s) ==
    \E i \in 1..Len(s) : Boundary(s, i) /\ AltAt(s, FORM_WORDS, i) # 0

(***************************************************************************)
(* Admin / non-med filter                                                  *)
(***************************************************************************)
\* re.fullmatch(r"[rx\W\d]{1,4}", low)
TinyToken(low) ==
    /\ Len(low) \in 1..4
    /\ \A i \in 1..Len(low) :
          low[i] \in {"r", "x"} \/ ~IsWord(low[i]) \/ IsDigit(low[i])

\* The tests of lines 64-74 on low = line.lower().strip().
AdminLow(low) ==
    \/ low = <<>>
    \/ \E k \in DOMAIN ADMIN_KEYWORDS : Contains(low, ADMIN_KEYWORDS[k])
    \/ /\ Contains(low, <<",">>)
       /\ ~(\/ DOSE_RE_search(low) # None
            \/ FREQ_RE_search(low) # None
            \/ FORM_RE_search(low))
    \/ TinyToken(low)

_looks_like_admin_text(line) == AdminLow(strip(lower(line)))

(***************************************************************************)
(* Fuzzy canonicalization                                                  *)
(***************************************************************************)
\* Length of the common run of a[i:ahi] and b[j:bhi] (hi exclusive).
RECURSIVE RunLength(_, _, _, _, _, _)
RunLength(a, b, i, j, ahi, bhi) ==
    IF i < ahi /\ j < bhi /\ a[i] = b[j]
    THEN 1 + RunLength(a, b, i + 1, j + 1, ahi, bhi)
    ELSE 0

\* Largest member of a non-empty set of integers.
Max(S) == CHOOSE x \in S : \A y \in S : x >= y

\* The block <<i, j, size>> chosen among the runs run[<<i, j>>] of the given
\* size: the one starting earliest in a, then earliest in b.
EarliestBlock(run, size) ==
    LET i == Min({p[1] : p \in {q \in DOMAIN run : run[q] = size}})
    IN  <<i, Min({p[2] : p \in {q \in DOMAIN run : run[q] = size /\ q[1] = i}}), size>>

\* The longest block among the runs, <<alo, blo, 0>> when nothing matches.
LongestBlock(run, alo, blo) ==
    IF DOMAIN run = {} \/ \A p \in DOMAIN run : run[p] = 0
    THEN <<alo, blo, 0>>
    ELSE EarliestBlock(run, Max({run[p] : p \in DOMAIN run}))

\* SequenceMatcher.find_longest_match(alo, ahi, blo, bhi) without junk, as
\* <<i, j, size>>: the longest block, of those the one starting earliest
\* in a, and of those the one starting earliest in b.
find_longest_match(a, b, alo, ahi, blo, bhi) ==
    LongestBlock([p \in (alo..(ahi - 1)) \X (blo..(bhi - 1)) |->
                     RunLength(a, b, p[1], p[2], ahi, bhi)],
                 alo, blo)

\* Sum of the sizes of SequenceMatcher.get_matching_blocks(): the longest
\* block m, then the same to its left and to its right.
RECURSIVE Matches(_, _, _, _, _, _)
RECURSIVE MatchesAround(_, _, _, _, _, _, _)
MatchesAround(a, b, alo, ahi, blo, bhi, m) ==
    IF m[3] = 0 THEN 0
    ELSE m[3] + Matches(a, b, alo, m[1], blo, m[2])
              + Matches(a, b, m[1] + m[3], ahi, m[2] + m[3], bhi)

Matches(a, b, alo, ahi, blo, bhi) ==
    MatchesAround(a, b, alo, ahi, blo, bhi,
                  find_longest_match(a, b, alo, ahi, blo, bhi))

\* SequenceMatcher.ratio() as the pair <<2 * matches, length>>.
ratio(a, b) == <<2 * Matches(a, b, 1, Len(a) + 1, 1, Len(b) + 1), Len(a) + Len(b)>>

\* ratio >= cutoff for the cutoff 0.6 of both calls: 2M/T >= 6/10, and 1.0
\* for two empty strings.
AboveCutoff(r) == IF r[2] = 0 THEN TRUE ELSE 10 * r[1] >= 6 * r[2]

\* Order of two characters by code point, for the characters of the
\* vocabulary (lower-case letters).
CharRank(c) ==
    IF c \in LowerSet THEN CHOOSE i \in DOMAIN LowerAlpha : LowerAlpha[i] = c
    ELSE 0

\* x < y for Python strings.
RECURSIVE StrLess(_, _)
StrLess(x, y) ==
    IF y = <<>> THEN FALSE
    ELSE IF x = <<>> THEN TRUE
    ELSE IF x[1] # y[1] THEN CharRank(x[1]) < CharRank(y[1])
    ELSE StrLess(Tail(x), Tail(y))

\* (score[k], entry k) >= (score[n], entry n) as Python orders tuples, the
\* scores being fractions <<numerator, denominator>>.
RankGE(score, k, n) ==
    \/ score[k][1] * score[n][2] > score[n][1] * score[k][2]
    \/ /\ score[k][1] * score[n][2] = score[n][1] * score[k][2]
       /\ ~StrLess(CANON_MEDS_LOWER[k], CANON_MEDS_LOWER[n])

\* heapq.nlargest(1, result) over the entries kept, as an index; 0 for the
\* empty list.
Largest(score, kept) ==
    IF kept = {} THEN 0
    ELSE CHOOSE k \in kept : \A n \in kept : RankGE(score, k, n)

\* The entries whose score passes the cutoff, ranked.
BestMatch(score) ==
    Largest(score, {k \in DOMAIN score : AboveCutoff(score[k])})

\* get_close_matches(word, CANON_MEDS_LOWER, n=1, cutoff=0.6): the index of
\* the one match kept, 0 for the empty list. real_quick_ratio and
\* quick_ratio are upper bounds of ratio and reject nothing that ratio keeps.
get_close_matches(word) ==
    BestMatch([k \in DOMAIN CANON_MEDS_LOWER |-> ratio(CANON_MEDS_LOWER[k], word)])

\* list.index(x): the first position of x (the callers look up entries that
\* are present).
index(seq, x) == Min({i \in DOMAIN seq : seq[i] = x})

\* Last position of the run of word characters that starts at i.
RECURSIVE WordEnd(_, _)
WordEnd(q, i) ==
    IF i < Len(q) /\ IsWord(q[i + 1]) THEN WordEnd(q, i + 1) ELSE i

\* [t for t in re.split(r"[^\w]+", q) if len(t) > 2], scanning from i.
RECURSIVE Tokens(_, _)
RECURSIVE TokensAfter(_, _, _)
TokensAfter(q, i, e) ==
    (IF e - i + 1 > 2 THEN <<SubSeq(q, i, e)>> ELSE <<>>) \o Tokens(q, e + 1)

Tokens(q, i) ==
    IF i > Len(q) THEN <<>>
    ELSE IF ~IsWord(q[i]) THEN Tokens(q, i + 1)
    ELSE TokensAfter(q, i, WordEnd(q, i))

\* q in ALIASES
IsAlias(q) == \E p \in ALIASES : p[1] = q

\* ALIASES[q]
AliasTarget(q) == (CHOOSE p \in ALIASES : p[1] = q)[2]

\* The token-by-token fallback loop (lines 106-111) from token k on: the
\* name found, or None when no token resolves.
RECURSIVE TokenFallback(_, _)
RECURSIVE TokenTry(_, _, _)
TokenTry(tokens, k, m) ==
    IF m # 0 THEN [name |-> CANON_MEDS[m]] ELSE TokenFallback(tokens, k + 1)

TokenFallback(tokens, k) ==
    IF k > Len(tokens) THEN None
    ELSE IF IsAlias(tokens[k]) THEN [name |-> AliasTarget(tokens[k])]
    ELSE TokenTry(tokens, k, get_close_matches(tokens[k]))

\* q = name.strip(" .:-"): the key without the lower-casing.
CanonKeyNoLower(name) == strip_chars(name, {" ", ".", ":", "-"})

\* q = name.lower().strip(" .:-")
CanonKey(name) == strip_chars(lower(name), {" ", ".", ":", "-"})

\* A canonicalization that gives up: the empty string when no token
\* matches, in place of the title-cased name.
CanonByTokenOrNothing(name, tok) == IF tok # None THEN tok.name ELSE <<>>

\* Lines 105-112: the outcome of the token loop, else the title-cased name.
CanonByToken(name, tok) == IF tok # None THEN tok.name ELSE title(name)

\* Lines 101-112: the whole-string close match of index match, else the
\* token fallback.
CanonByMatch(name, q, match) ==
    IF match # 0 THEN CANON_MEDS[match]
    ELSE CanonByToken(name, TokenFallback(Tokens(q, 1), 1))

\* Lines 96-112 for the key q of name.
CanonOfKey(name, q) ==
    IF IsAlias(q) THEN AliasTarget(q)
    ELSE IF \E k \in DOMAIN CANON_MEDS_LOWER : CANON_MEDS_LOWER[k] = q
         THEN CANON_MEDS[index(CANON_MEDS_LOWER, q)]
    ELSE CanonByMatch(name, q, get_close_matches(q))

_fuzzy_canon(name) == CanonOfKey(name, CanonKey(name))

(***************************************************************************)
(* Parser                                                                  *)
(***************************************************************************)
\* s.split(" - ")[0]: the text before the first hyphen that stands between
\* two spaces, a hyphen elsewhere being kept.
BeforeSpacedDash(s) ==
    IF \E i \in 1..Len(s) : OccursAt(s, <<" ","-"," ">>, i)
    THEN SubSeq(s, 1, Min({i \in 1..Len(s) : OccursAt(s, <<" ","-"," ">>, i)}) - 1)
    ELSE s

\* s.split("-")[0]
BeforeDash(s) ==
    IF \E i \in 1..Len(s) : s[i] = "-"
    THEN SubSeq(s, 1, Min({i \in 1..Len(s) : s[i] = "-"}) - 1)
    ELSE s

\* Number of characters of [A-Za-z\-] at the start of s[i:].
RECURSIVE NameRun(_, _)
NameRun(s, i) ==
    IF i <= Len(s) /\ (IsAlpha(s[i]) \/ s[i] = "-")
    THEN 1 + NameRun(s, i + 1)
    ELSE 0

\* m.group(1) if m else left, for m = re.match(r"([A-Za-z][A-Za-z\-]{2,})",
\* left): the leading run of three or more letters/hyphens that starts with
\* a letter, else the whole of left.
NameToken(left) ==
    IF left # <<>> /\ IsAlpha(left[1]) /\ NameRun(left, 2) >= 2
    THEN SubSeq(left, 1, 1 + NameRun(left, 2))
    ELSE left

\* re.sub(r"\b(tab|tablet|cap|capsule|mg|mcg|g|ml|iu|units|%)\b", "", s,
\* flags=re.I), scanning from position i.
RECURSIVE StripFormUnit(_, _)
RECURSIVE StripFormUnitAt(_, _, _)
StripFormUnitAt(s, i, k) ==
    IF k # 0 THEN StripFormUnit(s, i + Len(NAME_STRIP_WORDS[k]))
    ELSE <<s[i]>> \o StripFormUnit(s, i + 1)

StripFormUnit(s, i) ==
    IF i > Len(s) THEN <<>>
    ELSE StripFormUnitAt(s, i, IF Boundary(s, i)
                               THEN AltAt(s, NAME_STRIP_WORDS, i) ELSE 0)

\* name_part without the re.sub of line 136: the form and unit words are
\* left in the name.
NamePartUnstripped(s) == strip(NameToken(strip(BeforeDash(s))))

\* name_part of lines 132-136, from the normalized line s.
NamePart(s) == strip(StripFormUnit(NameToken(strip(BeforeDash(s))), 1))

\* freq of line 128.
FreqCode(freq_match) ==
    IF freq_match # None THEN upper(freq_match.group1) ELSE <<>>

\* dose of line 129.
DoseText(dose_match) ==
    IF dose_match # None
    THEN dose_match.group1 \o <<" ">> \o lower(dose_match.group2)
    ELSE <<>>

\* FREQ_MAP.get(freq, ""): a lookup whose default is the empty string
\* instead of the code.
FreqExpandedOrEmpty(freq) ==
    IF \E p \in FREQ_MAP : p[1] = freq
    THEN (CHOOSE p \in FREQ_MAP : p[1] = freq)[2]
    ELSE <<>>

\* FREQ_MAP.get(freq, freq)
FreqExpanded(freq) ==
    IF \E p \in FREQ_MAP : p[1] = freq
    THEN (CHOOSE p \in FREQ_MAP : p[1] = freq)[2]
    ELSE freq

\* The route with the two tests in the other order: "inj" before "tab".
RouteInjFirst(s) ==
    IF Contains(lower(s), <<"i","n","j">>)
    THEN <<"I","n","j","e","c","t","i","o","n">>
    ELSE IF Contains(lower(s), <<"t","a","b">>)
         THEN <<"O","r","a","l"," ","(","T","a","b","l","e","t",")">>
         ELSE <<"O","r","a","l">>

\* The route of line 142.
Route(s) ==
    IF Contains(lower(s), <<"t","a","b">>)
    THEN <<"O","r","a","l"," ","(","T","a","b","l","e","t",")">>
    ELSE IF Contains(lower(s), <<"i","n","j">>)
         THEN <<"I","n","j","e","c","t","i","o","n">>
         ELSE <<"O","r","a","l">>

\* No final validation: the resolved name is never checked.
AdminLikeNameNever(canon) == FALSE

\* The final validation of lines 144-146.
AdminLikeName(canon) == _looks_like_admin_text(lower(canon))

\* "raw": s, the normalized line kept in place of the original.
RawNormalized(line, s) == s

\* "raw": line (line 154), the argument of _parse_line_to_med.
RawOf(line, s) == line

\* Lines 144-155: the record, unless the canonical name looks
\* administrative.
MedRecord(line, s, freq, dose, canon) ==
    IF AdminLikeName(canon) THEN None
    ELSE [name          |-> canon,
          dose          |-> dose,
          freq          |-> freq,
          freq_expanded |-> FreqExpanded(freq),
          route         |-> Route(s),
          raw           |-> RawOf(line, s)]

\* Lines 138-141: no name part, no record.
ParseName(line, s, freq, dose, name_part) ==
    IF name_part = <<>> THEN None
    ELSE MedRecord(line, s, freq, dose, _fuzzy_canon(name_part))

\* The parser without the test of line 124: the name is looked for
\* whatever the line holds.
ParseFieldsAnyLine(line, s, freq_match, dose_match, has_form) ==
    ParseName(line, s, FreqCode(freq_match), DoseText(dose_match), NamePart(s))

\* Lines 124-136: a line with none of the three signals is rejected.
ParseFields(line, s, freq_match, dose_match, has_form) ==
    IF ~(freq_match # None \/ dose_match # None \/ has_form) THEN None
    ELSE ParseName(line, s, FreqCode(freq_match), DoseText(dose_match), NamePart(s))

\* Lines 117-123 on the normalized line s.
ParseNormalized(line, s) ==
    IF _looks_like_admin_text(s) THEN None
    ELSE ParseFields(line, s, FREQ_RE_search(s), DOSE_RE_search(s), FORM_RE_search(s))

_parse_line_to_med(line) == ParseNormalized(line, _normalize_line(line))

(***************************************************************************)
(* Extractor                                                               *)
(***************************************************************************)
\* str.splitlines() for the line break "\n": a final line break ends the
\* last line and opens no empty one.
RECURSIVE splitlines(_)
splitlines(t) ==
    IF t = <<>> THEN <<>>
    ELSE LET breaks == {i \in 1..Len(t) : t[i] = "\n"}
         IN  IF breaks = {} THEN <<t>>
             ELSE <<SubSeq(t, 1, Min(breaks) - 1)>>
                  \o splitlines(From(t, Min(breaks) + 1))

\* A loop without the `if not m: continue` guard.
FalsyNever(m) == FALSE

\* `not m` for the value _parse_line_to_med returns: None is falsy, a
\* record (a dict with six keys) is truthy.
Falsy(m) == m = None

\* A dedup key that also holds the raw line: two spellings of one
\* instruction would then count as different.
MedKeyWithRaw(m) == <<lower(m.name), m.dose, m.freq, m.raw>>

\* key = (m["name"].lower(), m["dose"], m["freq"])
MedKey(m) == <<lower(m.name), m.dose, m.freq>>

\* One set `seen` for all the calls, as a module-level set would be.
SeenShared(allSeen, c) == UNION {allSeen[d] : d \in DOMAIN allSeen}

\* The set `seen` that call c reads and updates: its own local.
SeenBy(allSeen, c) == allSeen[c]

\* A mapping whose symptoms list is filled from the medications, as a
\* variant that reports detected names under both keys would build it.
extract_entities_symptoms(medications) ==
    [medications |-> medications,
     symptoms    |-> [i \in DOMAIN medications |-> medications[i].name],
     diet        |-> <<>>]

\* The mapping extract_entities builds around the medications list.
extract_entities(medications) ==
    [medications |-> medications, symptoms |-> <<>>, diet |-> <<>>]

(***************************************************************************)
(* Inputs                                                                  *)
(***************************************************************************)
\* The six lines of the end-to-end scenario (from the demo of lines 183-194).
DemoLines ==
    <<<<"M","E","D","I","C","A","L"," ","C","E","N","T","R","E">>,
      <<"B","e","t","a","l","o","c"," ","1","0","0","m","g"," ","-"," ","1"," ","t","a","b"," ","B","I","D">>,
      <<"D","o","r","z","o","l","a","m","i","d","u","m"," ","1","0"," ","m","g"," ","-"," ","1"," ","t","a","b"," ","B","I","D">>,
      <<"C","i","m","e","t","i","d","i","n","e"," ","5","0"," ","m","g"," ","-"," ","2"," ","t","a","b","s"," ","T","I","D">>,
      <<"O","x","p","r","e","l","e","l"," ","5","0","m","9"," ","-"," ","1"," ","t","a","b"," ","Q","D">>,
      <<"R","E","F","I","L","L"," ","0"," ","1"," ","2"," ","3"," ","4"," ","5"," ","P","R","N">>>>

\* Lines given to the extractor one at a time: administrative lines,
\* medication lines in several spellings, lines rejected at each stage of
\* the parser, and blank lines.
LinePool ==
    <<<<"M","E","D","I","C","A","L"," ","C","E","N","T","R","E">>,
      <<"N","e","w"," ","Y","o","r","k",","," ","N","Y"," ","9","1","7","4","3",","," ","U","S","A">>,
      <<"D","r","."," ","S","t","e","v","e"," ","J","o","h","n","s","o","n">>,
      <<"8","2","4"," ","1","4","t","h"," ","S","t","r","e","e","t">>,
      <<"N","a","m","e"," ","J","o","h","n"," ","S","m","i","t","h"," "," "," "," "," ","A","g","e"," ","3","4">>,
      <<"R","X">>,
      <<"R","E","F","I","L","L"," ","0"," ","1"," ","2"," ","3"," ","4"," ","5"," ","P","R","N">>,
      <<"B","e","t","a","l","o","c"," ","5"," ","m","g"," ","r","e","f","i","l","l">>,
      <<"B","e","t","a","l","o","c"," ","5"," ","m","g"," ","a","g","e">>,
      <<"B","e","t","a","l","o","c"," ","1","0","0","m","g"," ","B","I","D"," ","a","g","e"," ","3","4">>,
      <<"C","i","m","e","t","i","d","i","n","e"," ","5"," ","m","g"," ","d","r">>,
      <<"B","e","t","a","l","o","c"," ","1","0","0","m","g"," ","-"," ","1"," ","t","a","b"," ","B","I","D">>,
      <<"b","e","t","a","l","o","c"," ","1","0","0"," ","m","g"," ","b","i","d">>,
      <<"B","E","T","A","L","O","C",".","."," ","1","0","0","m","g"," ","B","I","D"," ","i","n","j">>,
      <<"D","o","r","z","o","l","a","m","i","d","u","m"," ","1","0"," ","m","g"," ","-"," ","1"," ","t","a","b"," ","B","I","D">>,
      <<"C","i","m","e","t","i","d","i","n","e"," ","5","0"," ","m","g"," ","-"," ","2"," ","t","a","b","s"," ","T","I","D">>,
      <<"O","x","p","r","e","l","e","l"," ","5","0","m","9"," ","-"," ","1"," ","t","a","b"," ","Q","D">>,
      <<"O","X","P","R","E","L","E","L"," ","5","m","g">>,
      <<"B","e","t","a","l","o","c"," ","5"," ","m","g"," ","q","6","h">>,
      <<"B","e","t","a","l","o","c"," ","5"," ","m","g"," ","Q","1","2","H">>,
      <<"B","e","t","a","l","o","c"," ","I","N","J"," ","5"," ","m","g">>,
      <<"A","s","p","i","r","i","n"," ","t","a","b">>,
      <<"P","a","r","a","c","e","t","m","o","l"," ","5","0","0"," ","m","g"," ","S","O","S">>,
      <<"A","m","o","x","i","c","i","l","i","n"," ","2","5","0"," ","m","g"," ","c","a","p"," ","q","i","d">>,
      <<"M","e","t","f","o","r","m","i","n"," ","1",".","5"," ","g"," ","O","D">>,
      <<"L","o","s","a","r","t","a","n"," ","5","0"," ","m","g"," ","h","s">>,
      <<"X","y","z","z","y"," ","5"," ","m","g">>,
      <<"Z","z","z"," ","t","a","b">>,
      <<"1","2"," ","t","a","b"," ","B","I","D">>,
      <<"I","b","u","p","r","o","f","e","n"," ","2","0","0"," ","m","g"," ","Q","H","S">>,
      <<"A","s","p","i","r","i","n"," ","7","5"," ","m","g"," ","b","d">>,
      <<"O","m","e","p","r","a","z","o","l","e"," ","2","0"," ","m","g"," ","p","r","n">>,
      <<"H","y","d","o","c","h","l","o","r","o","t","h","i","a","z","i","d","e"," ","1","0"," ","m","g">>,
      <<"H","y","d","r","o","c","h","l","o","r","o","t","h","i","a","z","i","d","e"," ","1","0"," ","m","g">>,
      <<"R","x","x"," ","5"," ","m","g">>,
      <<"B","e","t","a","l","o","c">>,
      <<"B","e","t","a","l","o","c"," ","1","2","3","4","5","m","g">>,
      <<".",".","."," ","t","a","b">>,
      <<"T","a","b"," ","P","a","r","a","c","e","t","a","m","o","l">>,
      <<"?","!">>,
      <<"1","2","3","4","5">>,
      <<"-","-"," ","5"," ","m","g">>,
      <<"a",","," ","b">>,
      <<"B","e","t","a","l","o","c",","," ","C","i","m","e","t","i","d","i","n","e">>,
      <<>>,
      <<" "," ">>,
      <<" ","\t">>>>

\* Lines combined into multi-line texts: two spellings of one medication
\* (same dedup key, different route and raw text), another medication, an
\* administrative line, a blank line and a garbled line.
DriverPool ==
    <<<<"B","e","t","a","l","o","c"," ","1","0","0","m","g"," ","-"," ","1"," ","t","a","b"," ","B","I","D">>,
      <<"b","e","t","a","l","o","c"," ","1","0","0"," ","m","g"," ","b","i","d">>,
      <<"C","i","m","e","t","i","d","i","n","e"," ","5","0"," ","m","g"," ","-"," ","2"," ","t","a","b","s"," ","T","I","D">>,
      <<"M","E","D","I","C","A","L"," ","C","E","N","T","R","E">>,
      <<" "," ">>,
      <<"?","!">>>>


\* Longest text built from DriverPool, in lines.
MaxLines == 2

\* Number of concurrent calls of extract_entities.
NumCalls == 2

\* "\n".join(ls)
RECURSIVE Join(_)
Join(ls) ==
    IF ls = <<>> THEN <<>>
    ELSE IF Len(ls) = 1 THEN ls[1]
    ELSE ls[1] \o <<"\n">> \o Join(Tail(ls))

\* All sequences over the entries of pool, of length 0..n.
SeqsUpTo(pool, n) ==
    UNION {[1..k -> {pool[i] : i \in DOMAIN pool}] : k \in 0..n}

DemoText == Join(DemoLines)

\* Texts of three lines in which a medication comes back, in another
\* spelling, after a different one.
OrderTexts ==
    {Join(<<DriverPool[2], DriverPool[3], DriverPool[1]>>),
     Join(<<DriverPool[3], DriverPool[1], DriverPool[2]>>)}

\* A medication line with the number n, the spacing sp and the unit u,
\* followed by a frequency code.
DoseLine(n, sp, u) ==
    CANON_MEDS[1] \o <<" ">> \o n \o sp \o u \o <<" ","B","I","D">>

\* Numbers of the shapes DOSE_RE is written for: one digit, a decimal, and
\* four digits with two decimals.
DoseNumbers ==
    {<<"5">>, <<"2",".","5">>, <<"1","0","0","0",".","2","5">>}

DoseSpacings == {<<>>, <<" ">>}

\* Every unit of DOSE_UNITS, in lower and in upper case.
DoseUnitSpellings ==
    {DOSE_UNITS[k] : k \in DOMAIN DOSE_UNITS}
    \cup {upper(DOSE_UNITS[k]) : k \in DOMAIN DOSE_UNITS}

\* Lines with one dose for every number, spacing and unit; a line with two
\* doses; a line with none.
DoseLines ==
    {DoseLine(n, sp, u) : n \in DoseNumbers, sp \in DoseSpacings, u \in DoseUnitSpellings}
    \cup {<<"B","e","t","a","l","o","c"," ","5"," ","m","g"," ","1","0"," ","m","l">>, <<"B","e","t","a","l","o","c"," ","B","I","D">>}

\* Lines whose text before the first hyphen does not begin with three
\* letters: digits only, and a two-letter prefix before a hyphen.
NameLines ==
    {<<"1","2","3","4","5"," ","t","a","b">>, <<"C","o","-","t","r","i","m","o","x","a","z","o","l","e"," ","4","8","0"," ","m","g">>}

\* Lines for the route: both "inj" and "tab", and "tab" inside another
\* word.
RouteLines ==
    {<<"B","e","t","a","l","o","c"," ","i","n","j"," ","t","a","b">>, <<"B","e","t","a","l","o","c"," ","s","t","a","b","i","l","i","z","e","d"," ","5"," ","m","g">>}

\* Lines with commas: a list of names, a list whose first name begins with
\* the letters of a form word, and a name followed by a dose.
CommaLines ==
    <<<<"B","e","t","a","l","o","c",","," ","C","i","m","e","t","i","d","i","n","e",","," ","A","s","p","i","r","i","n">>,
      <<"C","a","p","t","o","p","r","i","l",","," ","B","e","t","a","l","o","c">>,
      <<"B","e","t","a","l","o","c",","," ","5"," ","m","g">>>>

\* The line "N 10 mg" for the k-th name N of the vocabulary.
VocabLine(k) == CANON_MEDS[k] \o <<" ","1","0"," ","m","g">>

\* The characters that are, or are normalized to, a hyphen.
LeadMarks == {"BULLET", "EMDASH", "ENDASH", "-"}

\* Medication lines behind a leading mark: with and without blanks before
\* the mark and between the mark and the name.
MarkedLines ==
    {pre \o <<mk>> \o sp \o rest :
        pre \in {<<>>, <<" "," ">>}, mk \in LeadMarks, sp \in {<<>>, <<" ">>},
        rest \in {DriverPool[1], <<"B","e","t","a","l","o","c"," ","5"," ","m","g">>}}

\* The stripped form and unit words of three letters or more.
LeadKeywords ==
    {<<"t","a","b">>, <<"t","a","b","l","e","t">>, <<"c","a","p">>, <<"c","a","p","s","u","l","e">>, <<"m","c","g">>, <<"u","n","i","t","s">>}

\* What follows the keyword in the sample lines: a drug name, a dose and,
\* in the first, a frequency code.
KeywordRests ==
    <<<<"P","a","r","a","c","e","t","a","m","o","l"," ","5","0","0"," ","m","g"," ","B","I","D">>,
      <<"A","m","o","x","i","c","i","l","l","i","n"," ","2","5","0"," ","m","g">>>>

\* Lines that begin with a keyword, in lower, upper and title case,
\* followed by a medication instruction.
KeywordFirstLines ==
    {w \o <<" ">> \o KeywordRests[i] :
        w \in {lower(k) : k \in LeadKeywords} \cup {upper(k) : k \in LeadKeywords}
              \cup {title(k) : k \in LeadKeywords},
        i \in DOMAIN KeywordRests}

\* The texts given to a single call: the scenario, the scenario ended by a
\* line break, every pool line alone, every text of up to MaxLines
\* lines of DriverPool, and the texts built for particular cases.
Texts ==
    {DemoText, DemoText \o <<"\n">>}
    \cup {LinePool[i] : i \in DOMAIN LinePool}
    \cup {Join(ls) : ls \in SeqsUpTo(DriverPool, MaxLines)}
    \cup OrderTexts
    \cup DoseLines
    \cup NameLines
    \cup RouteLines
    \cup {CommaLines[i] : i \in DOMAIN CommaLines}
    \cup {VocabLine(k) : k \in DOMAIN CANON_MEDS}
    \cup MarkedLines
    \cup KeywordFirstLines

\* The texts given to concurrent calls.
ConcTexts ==
    {DemoText,
     Join(<<DriverPool[1], DriverPool[2], DriverPool[3], DriverPool[1]>>),
     Join(<<DriverPool[2], DriverPool[4]>>),
     <<>>}

(***************************************************************************)
(* The calls                                                               *)
(***************************************************************************)
\* A list that grows at the front: the newest record first.
Prepended(list, m) == <<m>> \o list

\* meds.append(m)
Appended(list, m) == Append(list, m)

\* _extract_meds up to the loop: the two locals and the list of lines.
Begin(c) ==
    /\ pc[c] = "start"
    /\ lines' = [lines EXCEPT ![c] = splitlines(text[c])]
    /\ meds' = [meds EXCEPT ![c] = <<>>]
    /\ seen' = [seen EXCEPT ![c] = {}]
    /\ idx' = [idx EXCEPT ![c] = 1]
    /\ pc' = [pc EXCEPT ![c] = "loop"]
    /\ UNCHANGED <<text, result, normVars, canonVars>>

\* One iteration of the loop of _extract_meds (lines 161-170). Subscripting
\* m when it is None raises TypeError, which leaves the call.
ProcessLine(c) ==
    /\ pc[c] = "loop"
    /\ idx[c] <= Len(lines[c])
    /\ LET l == lines[c][idx[c]]
           m == _parse_line_to_med(l)
       IN  IF strip(l) = <<>> \/ Falsy(m)
           THEN /\ idx' = [idx EXCEPT ![c] = @ + 1]
                /\ UNCHANGED <<meds, seen, pc>>
           ELSE IF m = None
           THEN /\ pc' = [pc EXCEPT ![c] = "raised"]
                /\ UNCHANGED <<meds, seen, idx>>
           ELSE IF MedKey(m) \in SeenBy(seen, c)
           THEN /\ idx' = [idx EXCEPT ![c] = @ + 1]
                /\ UNCHANGED <<meds, seen, pc>>
           ELSE /\ seen' = [seen EXCEPT ![c] = @ \cup {MedKey(m)}]
                /\ meds' = [meds EXCEPT ![c] = Appended(@, m)]
                /\ idx' = [idx EXCEPT ![c] = @ + 1]
                /\ UNCHANGED pc
    /\ UNCHANGED <<text, lines, result, normVars, canonVars>>

\* The loop is over: _extract_meds returns meds and extract_entities wraps it.
Return(c) ==
    /\ pc[c] = "loop"
    /\ idx[c] > Len(lines[c])
    /\ result' = [result EXCEPT ![c] = extract_entities(meds[c])]
    /\ pc' = [pc EXCEPT ![c] = "done"]
    /\ UNCHANGED <<text, lines, idx, meds, seen, normVars, canonVars>>

ExtractNext ==
    \/ \E c \in DOMAIN pc : Begin(c)
    \/ \E c \in DOMAIN pc : ProcessLine(c)
    \/ \E c \in DOMAIN pc : Return(c)

NoCheck == <<>>

ExtractInitWith(calls, texts) ==
    /\ text \in [calls -> texts]
    /\ lines = [c \in calls |-> <<>>]
    /\ idx = [c \in calls |-> 1]
    /\ meds = [c \in calls |-> <<>>]
    /\ seen = [c \in calls |-> {}]
    /\ pc = [c \in calls |-> "start"]
    /\ result = [c \in calls |-> None]

NormIdle == norm_in = NoCheck /\ norm_out = NoCheck /\ norm_pc = "idle"

CanonIdle == canon_in = NoCheck /\ canon_out = NoCheck /\ canon_pc = "idle"

\* One call on any text of Texts.
Init == ExtractInitWith({1}, Texts) /\ NormIdle /\ CanonIdle

Spec == Init /\ [][ExtractNext]_vars

\* NumCalls calls, on texts of ConcTexts, their steps interleaved.
ConcInit == ExtractInitWith(1..NumCalls, ConcTexts) /\ NormIdle /\ CanonIdle

SpecConc == ConcInit /\ [][ExtractNext]_vars

(***************************************************************************)
(* Checks of the two helpers on their own                                  *)
(***************************************************************************)
\* Pieces of line that the normalizer rewrites, or that sit next to them.
NormFragments ==
    <<<<"5">>,
      <<" ","m","g">>,
      <<" ","m","g",".">>,
      <<".">>,
      <<"m","9">>,
      <<" ","a","g">>,
      <<"|">>,
      <<"O">>,
      <<"l">>,
      <<"Z">>,
      <<" ">>,
      <<"a","b">>,
      <<"o">>,
      <<"I">>,
      <<"z">>>>

\* Most fragments in one input of the normalizer.
MaxFrags == 3

RECURSIVE Concat(_)
Concat(ss) == IF ss = <<>> THEN <<>> ELSE ss[1] \o Concat(Tail(ss))

NormInputs == {Concat(fs) : fs \in SeqsUpTo(NormFragments, MaxFrags)}

NormInit ==
    /\ norm_in \in NormInputs
    /\ norm_out = <<>>
    /\ norm_pc = "start"
    /\ ExtractInitWith({}, {<<>>})
    /\ CanonIdle

\* s1 = _normalize_line(s)
NormalizeOnce ==
    /\ norm_pc = "start"
    /\ norm_out' = <<_normalize_line(norm_in)>>
    /\ norm_pc' = "once"
    /\ UNCHANGED <<norm_in, extractVars, canonVars>>

\* s2 = _normalize_line(s1)
NormalizeAgain ==
    /\ norm_pc = "once"
    /\ norm_out' = Append(norm_out, _normalize_line(norm_out[1]))
    /\ norm_pc' = "twice"
    /\ UNCHANGED <<norm_in, extractVars, canonVars>>

NormNext == NormalizeOnce \/ NormalizeAgain

SpecNorm == NormInit /\ [][NormNext]_vars

\* Name candidates: the alias keys, exact and misspelt vocabulary entries,
\* unknown words and multi-word candidates.
CanonWords ==
    <<<<"b","e","t","s","l","o","e">>,
      <<"b","e","t","e","l","o","c">>,
      <<"b","e","t","a","l","o","c">>,
      <<"v","o","r","z","o","l","a","r","i","d","u","m">>,
      <<"d","o","r","z","o","l","a","m","i","d","u","m">>,
      <<"o","x","p","r","e","l","e","l">>,
      <<"o","x","p","r","e","l","o","l">>,
      <<"c","i","m","e","t","i","d","i","n","e">>,
      <<"p","a","r","a","c","e","t","m","o","l">>,
      <<"h","y","d","o","c","h","l","o","r","o","t","h","i","a","z","i","d","e">>,
      <<"x","y","z","z","y">>,
      <<"t","h","e"," ","a","s","p","i","r","n">>,
      <<"a","b"," ","c","d">>,
      <<"o","x","p","r","e","n","o","l","o","l">>,
      <<"r","x","x">>,
      <<>>,
      <<"a">>,
      <<"x","y","9","z">>>>

\* Characters found around a candidate, among them those _fuzzy_canon trims.
CanonPads == {<<>>, <<".">>, <<" ","-">>, <<":">>}

\* Every word in lower case, upper case and title case, between two pads.
CanonInputs ==
    {pre \o w \o post :
        pre \in CanonPads, post \in CanonPads,
        w \in UNION {{CanonWords[i], upper(CanonWords[i]), title(CanonWords[i])} :
                        i \in DOMAIN CanonWords}}

CanonInit ==
    /\ canon_in \in CanonInputs
    /\ canon_out = <<>>
    /\ canon_pc = "start"
    /\ ExtractInitWith({}, {<<>>})
    /\ NormIdle

\* canon = _fuzzy_canon(name)
Canonicalize ==
    /\ canon_pc = "start"
    /\ canon_out' = _fuzzy_canon(canon_in)
    /\ canon_pc' = "done"
    /\ UNCHANGED <<canon_in, extractVars, normVars>>

CanonNext == Canonicalize

SpecCanon == CanonInit /\ [][CanonNext]_vars

(***************************************************************************)
(* Properties                                                              *)
(***************************************************************************)
\* The records of call c, and its lines already processed.
Records(c) == {meds[c][i] : i \in DOMAIN meds[c]}

\* C1: extract_entities on the six-line scenario returns exactly four
\* records, in the order of their lines; the first is Betaloc, 100 mg, BID,
\* Twice daily, Oral (Tablet); the fourth is Oxprenolol with the dose 50 mg
\* (the "m9" repaired before the dose is matched); the header and the refill
\* line give no record.
EndToEndScenario ==
    \A c \in DOMAIN pc :
        (pc[c] = "done" /\ text[c] = DemoText) =>
            LET r == result[c].medications
            IN  /\ Len(r) = 4
                /\ \A i \in 1..4 : r[i].raw = DemoLines[i + 1]
                /\ r[1].name = <<"B","e","t","a","l","o","c">>
                /\ r[1].dose = <<"1","0","0"," ","m","g">>
                /\ r[1].freq = <<"B","I","D">>
                /\ r[1].freq_expanded = <<"T","w","i","c","e"," ","d","a","i","l","y">>
                /\ r[1].route = <<"O","r","a","l"," ","(","T","a","b","l","e","t",")">>
                /\ r[2].name = <<"D","o","r","z","o","l","a","m","i","d","e">>
                /\ r[3].name = <<"C","i","m","e","t","i","d","i","n","e">>
                /\ r[4].name = <<"O","x","p","r","e","n","o","l","o","l">>
                /\ r[4].dose = <<"5","0"," ","m","g">>

\* A call on the scenario has returned.
EndToEndScenarioReached ==
    \E c \in DOMAIN pc :
        pc[c] = "done" /\ text[c] = DemoText /\ result[c].medications # <<>>

\* C2: at every point of the loop and in the result, no two records of one
\* call share (name lower-cased, dose, freq code); two lines with the same
\* name, dose and frequency but another route or raw text give one record.
DedupInvariant ==
    \A c \in DOMAIN pc :
        /\ \A i, j \in DOMAIN meds[c] :
              i # j => <<lower(meds[c][i].name), meds[c][i].dose, meds[c][i].freq>>
                       # <<lower(meds[c][j].name), meds[c][j].dose, meds[c][j].freq>>
        /\ pc[c] = "done" => result[c].medications = meds[c]

\* Two spellings of one instruction, with different routes, were both
\* processed and one record was kept.
DedupCaseReached ==
    \E c \in DOMAIN pc :
        /\ pc[c] = "done"
        /\ text[c] = Join(<<DriverPool[1], DriverPool[2]>>)
        /\ _parse_line_to_med(DriverPool[1]).route # _parse_line_to_med(DriverPool[2]).route
        /\ Len(result[c].medications) = 1

\* C3: _normalize_line(_normalize_line(s)) = _normalize_line(s) for every
\* line s.
NormalizeIdempotent ==
    norm_pc = "twice" => norm_out[2] = norm_out[1]

\* Whether a line contains, in any letter case, a keyword of ADMIN_KEYWORDS.
HasAdminKeyword(line) ==
    \E k \in DOMAIN ADMIN_KEYWORDS : Contains(lower(line), ADMIN_KEYWORDS[k])

\* C4: a line that contains an admin keyword, in any letter case and
\* anywhere, never produces a medication record.
AdminKeywordLineGivesNoRecord ==
    \A c \in DOMAIN pc : \A r \in Records(c) : ~HasAdminKeyword(r.raw)

\* C5: in every record the freq code is stored upper-cased; freq_expanded
\* is the table's description when the code is one of the ten of FREQ_MAP
\* (BID gives Twice daily), and the code itself otherwise (Q6H stays Q6H,
\* no code gives the empty string for both).
FrequencyExpansion ==
    \A c \in DOMAIN pc : \A r \in Records(c) :
        /\ r.freq = upper(r.freq)
        /\ \A p \in FREQ_MAP : r.freq = p[1] => r.freq_expanded = p[2]
        /\ r.freq = <<"B","I","D">> => r.freq_expanded = <<"T","w","i","c","e"," ","d","a","i","l","y">>
        /\ (\A p \in FREQ_MAP : r.freq # p[1]) => r.freq_expanded = r.freq
        /\ (FREQ_RE_search(_normalize_line(r.raw)) = None) =>
              (r.freq = <<>> /\ r.freq_expanded = <<>>)

\* A record holds an interval code written in lower case in its line.
IntervalCodeReached ==
    \E c \in DOMAIN pc : \E r \in Records(c) :
        /\ r.freq = <<"Q","6","H">>
        /\ Contains(r.raw, <<"q","6","h">>)

\* C6: a candidate whose lower-cased form, trimmed of " .:-", is a key of
\* ALIASES resolves to the alias target; Oxprelel gives Oxprenolol and
\* Dorzolamidum gives Dorzolamide, in any letter case.
AliasFirst ==
    canon_pc = "done" =>
        LET q == strip_chars(lower(canon_in), {" ", ".", ":", "-"})
        IN  /\ \A p \in ALIASES : q = p[1] => canon_out = p[2]
            /\ q = <<"o","x","p","r","e","l","e","l">> => canon_out = <<"O","x","p","r","e","n","o","l","o","l">>
            /\ q = <<"d","o","r","z","o","l","a","m","i","d","u","m">> => canon_out = <<"D","o","r","z","o","l","a","m","i","d","e">>

\* An upper-case, padded alias key was canonicalized.
AliasCaseReached ==
    /\ canon_pc = "done"
    /\ canon_in = <<".","O","X","P","R","E","L","E","L"," ","-">>
    /\ canon_out = <<"O","x","p","r","e","n","o","l","o","l">>

\* Whether a text holds nothing but blank lines (or is empty).
OnlyBlank(t) == \A i \in DOMAIN t : t[i] \in Whitespace \cup {"\n"}

\* C7: the mapping returned always has empty symptoms and diet lists, and
\* for the empty string or a text of blank lines an empty medications list
\* as well.
ResultShape ==
    \A c \in DOMAIN pc :
        pc[c] = "done" =>
            /\ DOMAIN result[c] = {"medications", "symptoms", "diet"}
            /\ result[c].symptoms = <<>>
            /\ result[c].diet = <<>>
            /\ OnlyBlank(text[c]) => result[c].medications = <<>>

\* A call on a text of two whitespace-only lines has returned.
BlankTextReached ==
    \E c \in DOMAIN pc :
        /\ pc[c] = "done"
        /\ text[c] = Join(<<DriverPool[5], DriverPool[5]>>)
        /\ Len(lines[c]) = 2
        /\ result[c].symptoms = <<>>

\* C8: every record has a non-empty name, and that name, lower-cased, is
\* not administrative text for _looks_like_admin_text.
NameNeverAdmin ==
    \A c \in DOMAIN pc : \A r \in Records(c) :
        /\ r.name # <<>>
        /\ ~_looks_like_admin_text(lower(r.name))

\* A line that is not administrative itself, but whose name resolves to a
\* vocabulary entry that is, was rejected as a whole.
AdminNameRejected ==
    \E c \in DOMAIN pc :
        /\ pc[c] = "done"
        /\ text[c] = <<"H","y","d","o","c","h","l","o","r","o","t","h","i","a","z","i","d","e"," ","1","0"," ","m","g">>
        /\ ~_looks_like_admin_text(_normalize_line(text[c]))
        /\ _fuzzy_canon(NamePart(_normalize_line(text[c]))) = CANON_MEDS[23]
        /\ result[c].medications = <<>>

\* C9: no call ends by an exception; every line is consumed; a rejected
\* line leaves no record and the lines after it are still processed, so
\* that every accepted line already passed has its key among the records.
NoExceptionalFlow ==
    \A c \in DOMAIN pc :
        /\ pc[c] # "raised"
        /\ pc[c] = "done" => idx[c] = Len(lines[c]) + 1
        /\ pc[c] \in {"loop", "done"} =>
              \A k \in 1..(idx[c] - 1) :
                  IF strip(lines[c][k]) = <<>> \/ _parse_line_to_med(lines[c][k]) = None
                  THEN \A r \in Records(c) : r.raw # lines[c][k]
                  ELSE \E r \in Records(c) :
                          /\ lower(r.name) = lower(_parse_line_to_med(lines[c][k]).name)
                          /\ r.dose = _parse_line_to_med(lines[c][k]).dose
                          /\ r.freq = _parse_line_to_med(lines[c][k]).freq

\* A garbled line was rejected and the medication line after it accepted.
RejectedThenAccepted ==
    \E c \in DOMAIN pc :
        /\ pc[c] = "done"
        /\ text[c] = Join(<<DriverPool[6], DriverPool[1]>>)
        /\ Len(result[c].medications) = 1
        /\ result[c].medications[1].raw = DriverPool[1]

\* C10: two calls on the same text, their steps interleaved in any order
\* with each other and with calls on other texts, return the same
\* medications list.
SameTextSameResult ==
    \A c, d \in DOMAIN pc :
        (pc[c] = "done" /\ pc[d] = "done" /\ text[c] = text[d]) =>
            result[c] = result[d]

\* Two calls on the scenario have both returned its four records.
TwoCallsReached ==
    \E c, d \in DOMAIN pc :
        /\ c # d
        /\ pc[c] = "done" /\ pc[d] = "done"
        /\ text[c] = DemoText /\ text[d] = DemoText
        /\ Len(result[c].medications) = 4

\* The dedup triple of a record, or None for a line that gives no record.
KeyOrNone(l, m) ==
    IF strip(l) = <<>> \/ m = None THEN None
    ELSE [key |-> <<lower(m.name), m.dose, m.freq>>]

LineKey(l) == KeyOrNone(l, _parse_line_to_med(l))

\* Position of the earliest line of call c, among those already processed,
\* with the dedup triple of its i-th record (0 when there is none).
SrcPos(c, i) ==
    LET S == {k \in 1..(idx[c] - 1) :
                 LineKey(lines[c][k]) = KeyOrNone(meds[c][i].raw, meds[c][i])}
    IN  IF S = {} THEN 0 ELSE Min(S)

\* C11: the i-th record of a call is the one built from the earliest line
\* with its dedup triple, the records stand in the order of those lines,
\* and a step of the loop only ever appends: a later duplicate neither
\* replaces nor moves a record already in the list.
FirstSeenOrder ==
    /\ [](\A c \in DOMAIN pc : \A i \in DOMAIN meds[c] :
            /\ SrcPos(c, i) > 0
            /\ meds[c][i] = _parse_line_to_med(lines[c][SrcPos(c, i)])
            /\ \A j \in DOMAIN meds[c] : j < i => SrcPos(c, j) < SrcPos(c, i))
    /\ [][\A c \in DOMAIN pc :
            /\ Len(meds'[c]) >= Len(meds[c])
            /\ SubSeq(meds'[c], 1, Len(meds[c])) = meds[c]]_vars

\* A medication, another one, then the first again in another spelling:
\* two records, the first from the first line.
LaterDuplicateReached ==
    \E c \in DOMAIN pc :
        /\ pc[c] = "done"
        /\ text[c] = Join(<<DriverPool[2], DriverPool[3], DriverPool[1]>>)
        /\ Len(result[c].medications) = 2
        /\ result[c].medications[1].raw = DriverPool[2]
        /\ result[c].medications[2].raw = DriverPool[3]

\* The lines of call c processed so far that are not blank.
NonBlankSeen(c) == {k \in 1..(idx[c] - 1) : strip(lines[c][k]) # <<>>}

\* C12: the raw field of every record is one of the lines of the input
\* text, as given and not as normalized; no line gives more than one
\* record, so the records have different raw lines and are never more than
\* the non-blank lines.
RawTraceability ==
    \A c \in DOMAIN pc :
        /\ pc[c] # "start" => lines[c] = splitlines(text[c])
        /\ \A i \in DOMAIN meds[c] :
              /\ \E k \in NonBlankSeen(c) : meds[c][i].raw = lines[c][k]
              /\ \A j \in DOMAIN meds[c] : j # i => meds[c][j].raw # meds[c][i].raw
        /\ Len(meds[c]) <= Cardinality(NonBlankSeen(c))
        /\ pc[c] = "done" => result[c].medications = meds[c]

\* A record was returned whose line the normalizer rewrites.
RawKeptUnnormalized ==
    \E c \in DOMAIN pc :
        /\ pc[c] = "done"
        /\ Len(result[c].medications) = 1
        /\ result[c].medications[1].raw = text[c]
        /\ _normalize_line(text[c]) # text[c]

\* Whether a normalized line s holds a frequency code, a dose (number and
\* unit) or a dosage-form word.
HasSignal(s) ==
    \/ FREQ_RE_search(s) # None
    \/ DOSE_RE_search(s) # None
    \/ FORM_RE_search(s)

\* C13: every record comes from a line whose normalized form holds a
\* frequency code, a dose or a dosage-form word; a processed line with none
\* of the three has no record, even when it is exactly a vocabulary name.
SignalRequired ==
    \A c \in DOMAIN pc :
        /\ \A r \in Records(c) : HasSignal(_normalize_line(r.raw))
        /\ \A k \in 1..(idx[c] - 1) :
              ~HasSignal(_normalize_line(lines[c][k])) =>
                  \A r \in Records(c) : r.raw # lines[c][k]
        /\ (pc[c] = "done" /\ text[c] = CANON_MEDS[1]) =>
              result[c].medications = <<>>

\* A line that is a vocabulary name and nothing else, not administrative,
\* was processed and gave no record.
BareNameRejected ==
    \E c \in DOMAIN pc :
        /\ pc[c] = "done"
        /\ text[c] = CANON_MEDS[1]
        /\ ~_looks_like_admin_text(_normalize_line(text[c]))
        /\ ~HasSignal(_normalize_line(text[c]))
        /\ result[c].medications = <<>>

\* C14: a medication line in which a number of 1-4 digits, with up to two
\* decimals, is followed at once or after a space by a unit of DOSE_UNITS in
\* any letter case gives one record whose dose is the number, a space and
\* the unit in lower case ("Betaloc 5% BID" gives "5 %", "Betaloc 2.5 ML
\* BID" gives "2.5 ml"); of two doses the first is used; without a dose the
\* dose is empty.
DoseExtracted ==
    \A c \in DOMAIN pc :
        pc[c] = "done" =>
            /\ \A n \in DoseNumbers, sp \in DoseSpacings, u \in DoseUnitSpellings :
                  text[c] = DoseLine(n, sp, u) =>
                      /\ Len(result[c].medications) = 1
                      /\ result[c].medications[1].dose = n \o <<" ">> \o lower(u)
            /\ text[c] = <<"B","e","t","a","l","o","c"," ","5"," ","m","g"," ","1","0"," ","m","l">> =>
                  /\ Len(result[c].medications) = 1
                  /\ result[c].medications[1].dose = <<"5"," ","m","g">>
            /\ text[c] = <<"B","e","t","a","l","o","c"," ","B","I","D">> =>
                  /\ Len(result[c].medications) = 1
                  /\ result[c].medications[1].dose = <<>>

\* Whether s begins with a letter followed by two more letters or hyphens.
StartsWithNameRun(s) ==
    /\ Len(s) >= 3
    /\ IsAlpha(s[1])
    /\ \A i \in 2..3 : IsAlpha(s[i]) \/ s[i] = "-"

\* C15: a record's name comes from the leading run of three or more
\* letters/hyphens of the normalized text before the first hyphen; a line
\* whose text before the first hyphen does not begin with such a run
\* ("12345 tab", "Co-trimoxazole 480 mg") gives no record.
NameRunRequired ==
    \A c \in DOMAIN pc : \A r \in Records(c) :
        StartsWithNameRun(strip(BeforeDash(_normalize_line(r.raw))))

\* The three routes.
RouteTablet == <<"O","r","a","l"," ","(","T","a","b","l","e","t",")">>

RouteInjection == <<"I","n","j","e","c","t","i","o","n">>

RouteOral == <<"O","r","a","l">>

\* The route the rule gives for a lower-cased normalized line.
RouteByRule(low) ==
    IF Contains(low, <<"t","a","b">>) THEN RouteTablet
    ELSE IF Contains(low, <<"i","n","j">>) THEN RouteInjection
    ELSE RouteOral

\* C16: the route of every record is Oral (Tablet), Injection or Oral: the
\* first exactly when the normalized line holds "tab" in any letter case
\* (even with "inj"), the second exactly when it holds "inj" and no "tab",
\* the third otherwise.
RouteInference ==
    \A c \in DOMAIN pc : \A r \in Records(c) :
        /\ r.route \in {RouteTablet, RouteInjection, RouteOral}
        /\ r.route = RouteByRule(lower(_normalize_line(r.raw)))

\* A record with the tablet route from a line that holds both "inj" and
\* "tab".
TabletWithInjReached ==
    \E c \in DOMAIN pc : \E r \in Records(c) :
        /\ r.route = RouteTablet
        /\ Contains(lower(r.raw), <<"i","n","j">>)
        /\ Contains(lower(r.raw), <<"t","a","b">>)

\* C17: a line with a comma gives a record only if its normalized form
\* also holds a dose, a frequency code or a dosage-form word; a list of
\* names separated by commas, with no such marker, gives no record.
CommaRule ==
    \A c \in DOMAIN pc :
        /\ \A r \in Records(c) :
              Contains(r.raw, <<",">>) => HasSignal(_normalize_line(r.raw))
        /\ \A k \in 1..(idx[c] - 1) :
              (Contains(lines[c][k], <<",">>) /\ ~HasSignal(_normalize_line(lines[c][k])))
                  => \A r \in Records(c) : r.raw # lines[c][k]
        /\ (pc[c] = "done" /\ text[c] \in {CommaLines[1], CommaLines[2]}) =>
              result[c].medications = <<>>

\* A list of three names separated by commas was processed and gave no
\* record.
NameListRejected ==
    \E c \in DOMAIN pc :
        /\ pc[c] = "done"
        /\ text[c] = CommaLines[1]
        /\ Len(lines[c]) = 1
        /\ Contains(lines[c][1], <<",">>)
        /\ result[c].medications = <<>>

\* The digit a look-alike letter stands for.
LookAlike ==
    [O |-> "0", o |-> "0", I |-> "1", l |-> "1", Z |-> "2", z |-> "2"]

\* Whether position i of t has a digit just before it, just after it.
DigitBefore(t, i) == i > 1 /\ IsDigit(t[i - 1])

DigitAfter(t, i) == i < Len(t) /\ IsDigit(t[i + 1])

\* The rule of the digit-context step, from the string t it is given to the
\* string u it returns.
DigitContextRule(t, u) ==
    /\ Len(u) = Len(t)
    /\ \A i \in DOMAIN t :
          IF t[i] \in DOMAIN LookAlike
          THEN /\ u[i] \in {t[i], LookAlike[t[i]]}
               /\ u[i] # t[i] => (DigitBefore(t, i) \/ DigitAfter(t, i))
               /\ (~DigitBefore(t, i) /\ ~DigitAfter(t, i)) => u[i] = t[i]
               /\ (DigitBefore(t, i) /\ DigitAfter(t, i)) => u[i] = LookAlike[t[i]]
          ELSE u[i] = t[i]

\* The normalizer's output from the string t that reaches its digit step.
DigitStepRule(t, out) ==
    /\ DigitContextRule(t, FixDigits(t))
    /\ out = strip(CollapseSpace(FixDigits(t), 1))

\* C18: in the string that the punctuation, pipe and unit repairs leave,
\* the digit-context step turns O/o into 0, I/l into 1 and Z/z into 2 only
\* next to a digit: a look-alike letter with no digit beside it is never
\* changed, one with a digit on both sides always is, and nothing else is
\* changed; the pipes count as the digits they became, so "|O|" gives "101".
DigitContextCorrection ==
    norm_pc \in {"once", "twice"} =>
        /\ DigitStepRule(SubOneAb(FixUnits(FixPunctuation(norm_in)), 1), norm_out[1])
        /\ norm_in = <<"|","O","|">> => norm_out[1] = <<"1","0","1">>

\* "|O|" was normalized to "101".
PipeContextReached ==
    /\ norm_pc = "once"
    /\ norm_in = <<"|","O","|">>
    /\ norm_out = <<<<"1","0","1">>>>

\* The canonical vocabulary as a set.
Vocabulary == {CANON_MEDS[k] : k \in DOMAIN CANON_MEDS}

\* C19: _fuzzy_canon returns, for every candidate, either an entry of the
\* canonical vocabulary or the candidate title-cased; every alias target is
\* an entry; a candidate equal to an entry but for letter case and trimmed
\* characters gives that entry as the vocabulary spells it; the result is
\* empty only for the empty candidate.
CanonNeverFails ==
    /\ \A p \in ALIASES : p[2] \in Vocabulary
    /\ canon_pc = "done" =>
          /\ canon_out \in Vocabulary \/ canon_out = title(canon_in)
          /\ \A k \in DOMAIN CANON_MEDS :
                strip_chars(lower(canon_in), {" ", ".", ":", "-"}) = lower(CANON_MEDS[k])
                    => canon_out = CANON_MEDS[k]
          /\ canon_in # <<>> => canon_out # <<>>

\* A candidate that matches nothing came back title-cased, and is not an
\* entry of the vocabulary.
TitleFallbackReached ==
    /\ canon_pc = "done"
    /\ canon_in = <<".","X","Y","Z","Z","Y"," ","-">>
    /\ canon_out = <<".","X","y","z","z","y"," ","-">>
    /\ canon_out \notin Vocabulary

\* C20: for each of the 28 names N of the canonical vocabulary, the line
\* "N 10 mg" gives exactly one record, with the name N and the dose
\* "10 mg"; no entry is stopped by the admin keywords.
VocabularyExtractable ==
    /\ Len(CANON_MEDS) = 28
    /\ \A c \in DOMAIN pc : \A k \in DOMAIN CANON_MEDS :
          (pc[c] = "done" /\ text[c] = VocabLine(k)) =>
              /\ Len(result[c].medications) = 1
              /\ result[c].medications[1].name = CANON_MEDS[k]
              /\ result[c].medications[1].dose = <<"1","0"," ","m","g">>

\* Whether the first non-blank character of a line is a bullet, an em or en
\* dash, or a hyphen.
StartsWithMark(l) == strip(l) # <<>> /\ strip(l)[1] \in LeadMarks

\* C21: a line whose first non-blank character is a bullet, an em/en dash
\* or a hyphen has an empty name candidate (the text before the first "-"
\* of its normalized form is empty) and never gives a record.
MarkedLineGivesNoRecord ==
    \A c \in DOMAIN pc :
        /\ \A r \in Records(c) : ~StartsWithMark(r.raw)
        /\ \A k \in 1..(idx[c] - 1) :
              StartsWithMark(lines[c][k]) =>
                  /\ NamePart(_normalize_line(lines[c][k])) = <<>>
                  /\ _parse_line_to_med(lines[c][k]) = None
        /\ (pc[c] = "done" /\ StartsWithMark(text[c]) /\ Len(lines[c]) = 1) =>
              result[c].medications = <<>>

\* The scenario's first medication line behind a bullet: it has a dose, a
\* form word and a frequency code, is not administrative, and gave no
\* record.
BulletLineRejected ==
    \E c \in DOMAIN pc :
        /\ pc[c] = "done"
        /\ text[c] = <<"BULLET", " ">> \o DriverPool[1]
        /\ HasSignal(_normalize_line(text[c]))
        /\ ~_looks_like_admin_text(_normalize_line(text[c]))
        /\ result[c].medications = <<>>

\* The first word of a line: its characters up to the first blank.
FirstWord(l) ==
    LET t == strip(l)
        blanks == {i \in DOMAIN t : IsSpace(t[i])}
    IN  IF blanks = {} THEN t ELSE SubSeq(t, 1, Min(blanks) - 1)

\* C22: a line whose first word is tab, tablet, cap, capsule, mcg or units,
\* in any letter case, never gives a record: the first word alone is the
\* name candidate, stripping leaves it empty, and the line is rejected
\* whatever drug name follows ("Tab Paracetamol 500 mg BID",
\* "Cap Amoxicillin 250 mg").
KeywordFirstGivesNoRecord ==
    \A c \in DOMAIN pc :
        /\ \A r \in Records(c) : lower(FirstWord(r.raw)) \notin LeadKeywords
        /\ \A k \in 1..(idx[c] - 1) :
              lower(FirstWord(lines[c][k])) \in LeadKeywords =>
                  /\ NameToken(strip(BeforeDash(_normalize_line(lines[c][k]))))
                        = FirstWord(lines[c][k])
                  /\ NamePart(_normalize_line(lines[c][k])) = <<>>
                  /\ _parse_line_to_med(lines[c][k]) = None
        /\ (pc[c] = "done"
              /\ text[c] \in {<<"T","a","b"," ","P","a","r","a","c","e","t","a","m","o","l"," ","5","0","0"," ","m","g"," ","B","I","D">>,
                              <<"C","a","p"," ","A","m","o","x","i","c","i","l","l","i","n"," ","2","5","0"," ","m","g">>}) =>
              result[c].medications = <<>>

\* "Tab Paracetamol 500 mg BID" gave no record, although it is not
\* administrative, holds a dose and a code, and gives a record once the
\* first word is taken away.
TabLineRejected ==
    \E c \in DOMAIN pc :
        /\ pc[c] = "done"
        /\ text[c] = <<"T","a","b"," ","P","a","r","a","c","e","t","a","m","o","l"," ","5","0","0"," ","m","g"," ","B","I","D">>
        /\ ~_looks_like_admin_text(_normalize_line(text[c]))
        /\ HasSignal(_normalize_line(text[c]))
        /\ _parse_line_to_med(KeywordRests[1]) # None
        /\ result[c].medications = <<>>

====
